---- MODULE Spec2Model ----
(***************************************************************************)
(* Model of etl/socrata_metadata_pub.py: one run of main(), which extracts *)
(* the two catalog views, classifies and filters the assets, flattens      *)
(* them, fetches one row count per dataset concurrently and replaces the   *)
(* destination table.                                                      *)
(*                                                                         *)
(* Encoding of Python values:                                              *)
(*   - a dict is a function whose domain is the set of its keys, so a      *)
(*     missing key is a string that is not in the DOMAIN;                  *)
(*   - a str is a sequence of text pieces, concatenation is \o and the     *)
(*     empty string is << >>; a ':' inside an identifier is a piece of its *)
(*     own, so that "':' in s" is a membership test on the pieces;         *)
(*   - a UTC timestamp string "YYYY-MM-DDTHH:MM:SS.ffffffZ" is the         *)
(*     sequence of its seven numeric fields, the Central time string       *)
(*     "YYYY-MM-DDTHH:MM:SS" the sequence of its six;                      *)
(*   - None is a value different from every str.                           *)
(***************************************************************************)
EXTENDS Integers, Sequences, FiniteSets, TLC

VARIABLES
    catalog_public,   \* what the catalog API answers without credentials
    catalog_full,     \* what the catalog API answers with credentials
    pc,               \* where main() is
    odp_data,         \* extract(): results of the public response
    edp_data,         \* extract(): results of the authenticated response
    data,             \* main(): the local variable data
    tasks,            \* get_row_counts(): resource ids of the tasks, in order
    inflight,         \* indexes of the tasks whose request is outstanding
    results,          \* task index -> what fetch() returned
    failed,           \* indexes of the tasks whose fetch() raised
    replace_calls,    \* the arguments of every soda.replace() call so far
    table,            \* rows of the destination table RESOURCE_ID
    extracted,        \* history: what extract() returned
    flattened,        \* history: what transform() returned
    completed,        \* history: task indexes in the order they completed
    answers,          \* history: resource id -> count the endpoint answered
    stages            \* history: the stages started so far, in order

vars == <<catalog_public, catalog_full, pc, odp_data, edp_data, data, tasks,
          inflight, results, failed, replace_calls, table, extracted,
          flattened, completed, answers, stages>>

(***************************************************************************)
(* Bounds of the model.                                                    *)
(***************************************************************************)
MaxAssets == 2      \* assets in the authenticated catalog response
MaxCount == 1       \* row counts the query endpoint answers: 0..MaxCount

(***************************************************************************)
(* Module constants of the program.                                        *)
(***************************************************************************)
None == <<"None">>

RESOURCE_ID == <<"28ys-ieqv">>
ATD_USER_ID == <<"8t3r-wq64">>
BASE_URL == <<"https://data.austintexas.gov/d/">>
EDP_URL == <<"https://datahub.austintexas.gov/d/">>
TRANSPORTATION_AND_MOBILITY == <<"Transportation and Mobility">>

OUT_FIELDS ==
    << "id", "name", "description", "attribution", "type", "updatedAt",
       "createdAt", "metadata_updated_at", "data_updated_at",
       "download_count", "publication_date", "page_views_last_week",
       "page_views_last_month", "page_views_total" >>

\* transform(): the dict fields, external metadata key -> output key
fields ==
    ("Publishing-Information_Automation-Method" :> "automation_method") @@
    ("Publishing-Information_Automation-Method-(if-Other)" :> "automation_method_other") @@
    ("Publishing-Information_Update-Frequency" :> "update_frequency") @@
    ("Publishing-Information_Spatial-Information" :> "spatial_information") @@
    ("Ownership_Department-name" :> "department_name") @@
    ("Ownership_Program-Name" :> "program_name") @@
    ("Strategic-Area_Strategic-Direction-Outcome" :> "strategic_area")

Range(s) == {s[i] : i \in DOMAIN s}

\* Python's  x in s  for a list (or, on the pieces, a str) s
In(x, s) == \E i \in DOMAIN s : s[i] = x

\* d[k] = v on a dict d
Put(d, k, v) == [x \in DOMAIN d \cup {k} |-> IF x = k THEN v ELSE d[x]]

(***************************************************************************)
(* extract(), lines 68-89: classification of visibility and the filter.    *)
(***************************************************************************)

\* line 68: odp_ids = [a["resource"]["id"] for a in odp_data["results"]]
OdpIds(odp_results) == [i \in DOMAIN odp_results |-> odp_results[i].resource.id]

\* ClassifyResource with the two branches of lines 73-76 exchanged
ClassifyResource_Swapped(resource, odp_ids) ==
    LET r1 == Put(resource, "is_public", ~In(resource.resource.id, odp_ids))
    IN  IF "domain_category" \notin DOMAIN r1.classification
        THEN [r1 EXCEPT !.classification = Put(@, "domain_category", << >>)]
        ELSE r1

\* lines 73-80: what one iteration of the loop writes into the resource
ClassifyResource(resource, odp_ids) ==
    LET r1 == Put(resource, "is_public", In(resource.resource.id, odp_ids))
    IN  IF "domain_category" \notin DOMAIN r1.classification
        THEN [r1 EXCEPT !.classification = Put(@, "domain_category", << >>)]
        ELSE r1

\* Retained without the test of line 87 for a draft identifier
Retained_KeepsDrafts(resource) ==
    \/ resource.owner.id = ATD_USER_ID
    \/ resource.classification.domain_category = TRANSPORTATION_AND_MOBILITY

\* lines 81-87: the condition under which the resource is appended to data
Retained(resource) ==
    /\ \/ resource.owner.id = ATD_USER_ID
       \/ resource.classification.domain_category = TRANSPORTATION_AND_MOBILITY
    /\ ~In(":", resource.resource.id)

\* lines 71-89: the loop over edp_data["results"], data being the list so far
RECURSIVE ExtractLoop(_, _, _)
ExtractLoop(edp_results, odp_ids, acc) ==
    IF edp_results = << >>
    THEN acc
    ELSE LET r == ClassifyResource(Head(edp_results), odp_ids)
         IN  ExtractLoop(Tail(edp_results), odp_ids,
                         IF Retained(r) THEN Append(acc, r) ELSE acc)

(***************************************************************************)
(* convert_tz(), lines 92-108.  pytz's US/Central is UTC-6 (CST), and      *)
(* UTC-5 (CDT) from the second Sunday of March 08:00 UTC to the first      *)
(* Sunday of November 07:00 UTC; the model holds the year 2023 of that     *)
(* table: 12 March and 5 November.                                         *)
(***************************************************************************)
CDT_BEGINS == <<3, 12, 8>>     \* month, day, hour (UTC) of 2023
CDT_ENDS == <<11, 5, 7>>

\* days of 2023 before the first of month m
DaysBefore(m) == <<0, 31, 59, 90, 120, 151, 181, 212, 243, 273, 304, 334, 365>>[m]

HourOfYear(m, d, h) == (DaysBefore(m) + d - 1) * 24 + h

\* line 97: strptime(date_str, "%Y-%m-%dT%H:%M:%S.%fZ") accepts date_str
Parses(date_str) ==
    /\ Len(date_str) = 7
    /\ date_str[2] \in 1..12
    /\ date_str[3] \in 1..(DaysBefore(date_str[2] + 1) - DaysBefore(date_str[2]))
    /\ date_str[4] \in 0..23
    /\ date_str[5] \in 0..59
    /\ date_str[6] \in 0..59

\* `not date_str`
Falsy(date_str) == date_str = None \/ date_str = << >>

\* lines 98-103: the UTC offset, in hours, US/Central has at the instant
CentralOffset(date_str) ==
    LET t == HourOfYear(date_str[2], date_str[3], date_str[4])
    IN  IF /\ HourOfYear(CDT_BEGINS[1], CDT_BEGINS[2], CDT_BEGINS[3]) <= t
           /\ t < HourOfYear(CDT_ENDS[1], CDT_ENDS[2], CDT_ENDS[3])
        THEN 5 ELSE 6

convert_tz(date_str) ==
    IF Falsy(date_str)
    THEN None
    ELSE LET local == HourOfYear(date_str[2], date_str[3], date_str[4])
                          - CentralOffset(date_str)
             day   == local \div 24
             month == CHOOSE m \in 1..12 : DaysBefore(m) <= day /\ day < DaysBefore(m + 1)
         IN  IF local < 0
             THEN <<date_str[1] - 1, 12, 31, 24 + local, date_str[5], date_str[6]>>
             ELSE <<date_str[1], month, day - DaysBefore(month) + 1, local % 24,
                    date_str[5], date_str[6]>>

(***************************************************************************)
(* transform(), lines 111-183.                                             *)
(***************************************************************************)
TIMESTAMP_FIELDS ==
    {"updatedAt", "createdAt", "metadata_updated_at", "data_updated_at",
     "publication_date"}

PAGE_VIEWS == {"page_views_last_week", "page_views_last_month", "page_views_total"}

\* lines 160-162: ", ".join(str(x) for x in domain_tags)
RECURSIVE Join(_)
Join(tags) ==
    IF tags = << >> THEN << >>
    ELSE IF Len(tags) = 1 THEN Head(tags)
    ELSE Head(tags) \o <<", ">> \o Join(Tail(tags))

\* lines 169-172: for item in items: metadata[item["key"]] = item["value"]
RECURSIVE PutItems(_, _)
PutItems(metadata, items) ==
    IF items = << >> THEN metadata
    ELSE PutItems(Put(metadata, Head(items).key, Head(items).value), Tail(items))

\* MergeMetadata with the two lists merged in the other order
MergeMetadata_PrivateLast(classification) ==
    LET public == PutItems(<< >>, classification.domain_metadata)
    IN  IF "domain_private_metadata" \in DOMAIN classification
        THEN PutItems(public, classification.domain_private_metadata)
        ELSE public

\* lines 167-172: the dict metadata of one row
MergeMetadata(classification) ==
    LET private == IF "domain_private_metadata" \in DOMAIN classification
                   THEN PutItems(<< >>, classification.domain_private_metadata)
                   ELSE << >>
    IN  PutItems(private, classification.domain_metadata)

\* PublishingFields without the else branch of lines 178-179
PublishingFields_OnlyPresent(filtered_data, metadata) ==
    LET present == {f \in DOMAIN fields : f \in DOMAIN metadata}
        out == {fields[f] : f \in present}
        key(o) == CHOOSE f \in present : fields[f] = o
    IN  [k \in DOMAIN filtered_data \cup out |->
            IF k \in out THEN metadata[key(k)] ELSE filtered_data[k]]

\* lines 175-179: the seven publishing-metadata fields written into the record
PublishingFields(filtered_data, metadata) ==
    LET out == {fields[f] : f \in DOMAIN fields}
        key(o) == CHOOSE f \in DOMAIN fields : fields[f] = o
    IN  [k \in DOMAIN filtered_data \cup out |->
            IF k \in out
            THEN IF key(k) \in DOMAIN metadata THEN metadata[key(k)] ELSE << >>
            ELSE filtered_data[k]]

\* lines 159-164: the value of filtered_data["tags"]
Tags(classification) ==
    IF "domain_tags" \in DOMAIN classification
    THEN Join(classification.domain_tags)
    ELSE << >>

\* lines 127-181: a KeyError or strptime's ValueError leaves the loop body
RowRaises(row) ==
    \/ "page_views" \notin DOMAIN row.resource
    \/ \E key \in Range(OUT_FIELDS) \ PAGE_VIEWS : key \notin DOMAIN row.resource
    \/ \E key \in TIMESTAMP_FIELDS :
          /\ key \in DOMAIN row.resource
          /\ ~Falsy(row.resource[key])
          /\ ~Parses(row.resource[key])
    \/ "display_name" \notin DOMAIN row.owner
    \/ "domain_metadata" \notin DOMAIN row.classification

\* lines 127-181: the record one iteration of the loop appends to output_data
Flatten(row) ==
    LET resource == [key \in PAGE_VIEWS |-> row.resource.page_views[key]] @@
                    row.resource
        projected == [key \in Range(OUT_FIELDS) |-> resource[key]]
        with_url == projected @@
                    ("dataset_url" :> (IF row.is_public THEN BASE_URL ELSE EDP_URL)
                                        \o projected.id) @@
                    ("is_public" :> (IF row.is_public THEN TRUE ELSE FALSE))
        with_tz == [key \in DOMAIN with_url |->
                       IF key \in TIMESTAMP_FIELDS
                       THEN convert_tz(with_url[key])
                       ELSE with_url[key]]
        with_tags == Put(Put(with_tz, "owner_display_name", row.owner.display_name),
                         "tags", Tags(row.classification))
    IN  PublishingFields(with_tags, MergeMetadata(row.classification))

(***************************************************************************)
(* fetch() and get_row_counts(), lines 186-216.                            *)
(***************************************************************************)

\* line 193: what fetch() returns when the endpoint answers [{"count": count}]
fetch(resource_id, count) == [id |-> resource_id, row_count |-> count]

\* Tasks without the test of line 206 for the type of the row
Tasks_EveryRow(rows) == [i \in DOMAIN rows |-> rows[i].id]

\* lines 204-207: the resource ids fetch() is called with, in task order
RECURSIVE Tasks(_)
Tasks(rows) ==
    IF rows = << >> THEN << >>
    ELSE IF Head(rows).type = <<"dataset">>
         THEN <<Head(rows).id>> \o Tasks(Tail(rows))
         ELSE Tasks(Tail(rows))

\* MergeResult assigning the result to the row instead of its row_count
MergeResult_Replace(rows, result) ==
    [i \in DOMAIN rows |-> IF rows[i].id = result.id THEN result ELSE rows[i]]

\* lines 212-214: the inner loop, for one result
MergeResult(rows, result) ==
    [i \in DOMAIN rows |->
        IF rows[i].id = result.id
        THEN Put(rows[i], "row_count", result.row_count)
        ELSE rows[i]]

\* lines 211-214: the outer loop over the results of gather()
RECURSIVE MergeResults(_, _)
MergeResults(rows, gathered) ==
    IF gathered = << >> THEN rows
    ELSE MergeResults(MergeResult(rows, Head(gathered)), Tail(gathered))

(***************************************************************************)
(* The catalog the API serves.  Every asset is built from a few choices;   *)
(* the fields no code path reads are the same for all of them.             *)
(***************************************************************************)
ID_A == <<"abcd-1234">>
ID_B == <<"wxyz-5678">>
ID_DRAFT == <<"abcd-1234", ":", "v2">>
ID_PUBLIC_ONLY == <<"pppp-0000">>
ID_C == <<"mnop-9012">>
FullIds == {ID_A, ID_B, ID_C, ID_DRAFT}

OTHER_USER_ID == <<"xxxx-0000">>
DEPARTMENT_NAME == "Ownership_Department-name"
UPDATE_FREQUENCY == "Publishing-Information_Update-Frequency"

TS_CST == <<2023, 3, 12, 7, 0, 0, 0>>      \* 2023-03-12T07:00:00.000Z
TS_CDT == <<2023, 3, 12, 8, 0, 0, 0>>      \* 2023-03-12T08:00:00.000Z
TS_EVE == <<2023, 3, 1, 2, 30, 15, 0>>     \* 2023-03-01T02:30:15.000Z
TS_NO_FRACTION == <<2023, 3, 12, 7, 0, 0>> \* 2023-03-12T07:00:00Z

\* the classification sub-object: category, tags and the two metadata lists,
\* each of which is either a value or "absent" (the key is missing)
Classification(category, tags, private, public) ==
    (IF category = "absent" THEN << >> ELSE "domain_category" :> category) @@
    (IF tags = "absent" THEN << >> ELSE "domain_tags" :> tags) @@
    (IF private = "absent" THEN << >> ELSE "domain_private_metadata" :> private) @@
    (IF public = "absent" THEN << >> ELSE "domain_metadata" :> public)

\* the five timestamps of the resource sub-object, in the order of TimestampOrder
TimestampOrder ==
    <<"updatedAt", "createdAt", "metadata_updated_at", "data_updated_at",
      "publication_date">>

Asset(id, type, owner_id, classification, stamps) ==
    [ resource |->
        [ id |-> id, name |-> <<"name of ">> \o id, description |-> << >>,
          attribution |-> <<"City of Austin">>, type |-> type,
          download_count |-> 7,
          page_views |-> [ page_views_last_week |-> 1,
                           page_views_last_month |-> 2,
                           page_views_total |-> 3 ] ] @@
        [ key \in Range(TimestampOrder) |->
            stamps[CHOOSE i \in DOMAIN TimestampOrder : TimestampOrder[i] = key] ],
      classification |-> classification,
      owner |-> [ id |-> owner_id, display_name |-> <<"owner ">> \o owner_id ] ]

\* timestamps every asset of the plain catalog carries
PlainStamps == <<TS_CST, TS_CDT, TS_EVE, None, << >> >>

\* the assets of the plain catalog: a dataset or a map, of the publishing
\* account or of another one, and one record without domain_metadata
PlainAssets ==
    { Asset(id, type, owner_id, Classification("absent", "absent", "absent", << >>),
            PlainStamps) :
        id \in FullIds, type \in {<<"dataset">>, <<"map">>},
        owner_id \in {ATD_USER_ID, OTHER_USER_ID} }
    \cup
    { Asset(ID_A, <<"dataset">>, ATD_USER_ID,
            Classification("absent", "absent", "absent", "absent"), PlainStamps) }

\* the sequences of at most n assets of S whose identifiers are all different
\* (resource.id is unique within a catalog response)
RECURSIVE Catalogs(_, _)
Catalogs(S, n) ==
    IF n = 0 THEN { << >> }
    ELSE LET shorter == Catalogs(S, n - 1)
             fresh(c) == {a \in S : \A i \in DOMAIN c :
                                       c[i].resource.id # a.resource.id}
         IN  shorter \cup UNION { {Append(c, a) : a \in fresh(c)} : c \in shorter }

\* the public view: any of the assets ID_A, ID_B and ID_PUBLIC_ONLY, of which
\* the code reads resource.id alone
PublicViews ==
    { SelectSeq(<<[resource |-> [id |-> ID_PUBLIC_ONLY]], [resource |-> [id |-> ID_A]],
                  [resource |-> [id |-> ID_B]]>>,
                LAMBDA a : a.resource.id \in ids) :
        ids \in SUBSET {ID_A, ID_B, ID_PUBLIC_ONLY} }

\* the rows the destination table holds before the run
PRIOR_ROWS == << [id |-> <<"row of an earlier run">>] >>

STAGES == <<"Extract", "Classify+Filter", "Flatten", "Enrich", "Publish">>

(***************************************************************************)
(* The run of main(), lines 225-230.                                       *)
(***************************************************************************)
InitRun ==
    /\ pc = "extract"
    /\ odp_data = << >>
    /\ edp_data = << >>
    /\ data = << >>
    /\ tasks = << >>
    /\ inflight = {}
    /\ results = << >>
    /\ failed = {}
    /\ replace_calls = << >>
    /\ table = PRIOR_ROWS
    /\ extracted = << >>
    /\ flattened = << >>
    /\ completed = << >>
    /\ answers = << >>
    /\ stages = << >>

Init ==
    /\ catalog_public \in PublicViews
    /\ catalog_full \in Catalogs(PlainAssets, MaxAssets)
    /\ InitRun

\* lines 56-66: both catalog requests answer
ExtractFetch ==
    /\ pc = "extract"
    /\ odp_data' = catalog_public
    /\ edp_data' = catalog_full
    /\ pc' = "classify"
    /\ stages' = Append(stages, "Extract")
    /\ UNCHANGED <<answers, catalog_public, catalog_full, data, tasks, inflight, results,
                   failed, replace_calls, table, extracted, flattened, completed>>

\* lines 56-66: requests.get() or json.loads() raises, and main() with it
ExtractFail ==
    /\ pc = "extract"
    /\ pc' = "Failed"
    /\ stages' = Append(stages, "Extract")
    /\ UNCHANGED <<answers, catalog_public, catalog_full, odp_data, edp_data, data, tasks,
                   inflight, results, failed, replace_calls, table, extracted,
                   flattened, completed>>

\* lines 68-89 and 227: the loop of extract(); it writes is_public and the
\* default category into every resource of edp_data and returns data
ClassifyFilter ==
    /\ pc = "classify"
    /\ edp_data' = [i \in DOMAIN edp_data |->
                       ClassifyResource(edp_data[i], OdpIds(odp_data))]
    /\ data' = ExtractLoop(edp_data, OdpIds(odp_data), << >>)
    /\ extracted' = data'
    /\ pc' = "transform"
    /\ stages' = Append(stages, "Classify+Filter")
    /\ UNCHANGED <<answers, catalog_public, catalog_full, odp_data, tasks, inflight,
                   results, failed, replace_calls, table, flattened, completed>>

\* lines 111-183 and 228: transform() returns
Transform ==
    /\ pc = "transform"
    /\ \A i \in DOMAIN data : ~RowRaises(data[i])
    /\ data' = [i \in DOMAIN data |-> Flatten(data[i])]
    /\ flattened' = data'
    /\ pc' = "get_row_counts"
    /\ stages' = Append(stages, "Flatten")
    /\ UNCHANGED <<answers, catalog_public, catalog_full, odp_data, edp_data, tasks,
                   inflight, results, failed, replace_calls, table, extracted,
                   completed>>

\* lines 126-181: a row raises, and main() with it
TransformFail ==
    /\ pc = "transform"
    /\ \E i \in DOMAIN data : RowRaises(data[i])
    /\ pc' = "Failed"
    /\ stages' = Append(stages, "Flatten")
    /\ UNCHANGED <<answers, catalog_public, catalog_full, odp_data, edp_data, data, tasks,
                   inflight, results, failed, replace_calls, table, extracted,
                   flattened, completed>>

\* the results of the tasks 1..n that have returned, in task order
RECURSIVE Returned(_)
Returned(n) ==
    IF n = 0 THEN << >>
    ELSE IF n \in DOMAIN results THEN Append(Returned(n - 1), results[n])
    ELSE Returned(n - 1)

\* lines 203-209: the tasks are built and gather() schedules all of them
EnrichStart ==
    /\ pc = "get_row_counts"
    /\ tasks' = Tasks(data)
    /\ inflight' = DOMAIN tasks'
    /\ pc' = "gather"
    /\ stages' = Append(stages, "Enrich")
    /\ UNCHANGED <<answers, catalog_public, catalog_full, odp_data, edp_data, data, results,
                   failed, replace_calls, table, extracted, flattened, completed>>

\* lines 191-193: the endpoint answers task k with a count, fetch() returns
FetchReturn(k) ==
    /\ pc = "gather"
    /\ k \in inflight
    /\ \E count \in 0..MaxCount :
          /\ results' = Put(results, k, fetch(tasks[k], count))
          /\ answers' = Put(answers, tasks[k], count)
    /\ inflight' = inflight \ {k}
    /\ completed' = Append(completed, k)
    /\ UNCHANGED <<catalog_public, catalog_full, pc, odp_data, edp_data, data,
                   tasks, failed, replace_calls, table, extracted, flattened,
                   stages>>

\* lines 191-193: the request of task k fails or times out, fetch() raises
FetchRaise(k) ==
    /\ pc = "gather"
    /\ k \in inflight
    /\ failed' = failed \cup {k}
    /\ inflight' = inflight \ {k}
    /\ completed' = Append(completed, k)
    /\ UNCHANGED <<answers, catalog_public, catalog_full, pc, odp_data, edp_data, data,
                   tasks, results, replace_calls, table, extracted, flattened,
                   stages>>

\* GatherReturn not waiting for the requests still outstanding
GatherReturn_Early ==
    /\ pc = "gather"
    /\ failed = {}
    /\ data' = MergeResults(data, Returned(Len(tasks)))
    /\ pc' = "load"
    /\ UNCHANGED <<answers, catalog_public, catalog_full, odp_data, edp_data, tasks,
                   inflight, results, failed, replace_calls, table, extracted,
                   flattened, completed, stages>>

\* GatherReturn pairing the dataset rows, by position, with the results in
\* the order the requests completed
GatherReturn_Zip ==
    /\ pc = "gather"
    /\ inflight = {}
    /\ failed = {}
    /\ data' = [i \in DOMAIN data |->
                   IF data[i].type = <<"dataset">>
                   THEN Put(data[i], "row_count",
                            results[completed[Cardinality(
                                {m \in 1..i : data[m].type = <<"dataset">>})]].row_count)
                   ELSE data[i]]
    /\ pc' = "load"
    /\ UNCHANGED <<answers, catalog_public, catalog_full, odp_data, edp_data, tasks,
                   inflight, results, failed, replace_calls, table, extracted,
                   flattened, completed, stages>>

\* lines 209-216 and 229: every task returned; gather() gives the results in
\* task order, they are merged into data and get_row_counts() returns
GatherReturn ==
    /\ pc = "gather"
    /\ inflight = {}
    /\ failed = {}
    /\ data' = MergeResults(data, [k \in DOMAIN tasks |-> results[k]])
    /\ pc' = "load"
    /\ UNCHANGED <<answers, catalog_public, catalog_full, odp_data, edp_data, tasks,
                   inflight, results, failed, replace_calls, table, extracted,
                   flattened, completed, answers, stages>>

\* GatherRaise as if gather() collected the exceptions: the results there are
\* get merged and the run goes on
GatherRaise_Swallowed ==
    /\ pc = "gather"
    /\ failed # {}
    /\ inflight = {}
    /\ data' = MergeResults(data, Returned(Len(tasks)))
    /\ pc' = "load"
    /\ UNCHANGED <<answers, catalog_public, catalog_full, odp_data, edp_data, tasks,
                   inflight, results, failed, replace_calls, table, extracted,
                   flattened, completed, stages>>

\* lines 203-209 and 229: gather() raises the exception of a failed task (it
\* has no return_exceptions); the session is closed, asyncio.run() cancels
\* the tasks still running and main() raises
GatherRaise ==
    /\ pc = "gather"
    /\ failed # {}
    /\ inflight' = {}
    /\ pc' = "Failed"
    /\ UNCHANGED <<answers, catalog_public, catalog_full, odp_data, edp_data, data, tasks,
                   results, failed, replace_calls, table, extracted, flattened,
                   completed, stages>>

\* lines 219-222 and 230: soda.replace() succeeds and the table holds data
Load ==
    /\ pc = "load"
    /\ replace_calls' = Append(replace_calls, <<RESOURCE_ID, data>>)
    /\ table' = data
    /\ pc' = "Published"
    /\ stages' = Append(stages, "Publish")
    /\ UNCHANGED <<answers, catalog_public, catalog_full, odp_data, edp_data, data, tasks,
                   inflight, results, failed, extracted, flattened, completed>>

\* lines 219-222 and 230: soda.replace() raises and main() with it; the
\* sink rejected the request, or applied it and the answer was lost
LoadFail ==
    /\ pc = "load"
    /\ replace_calls' = Append(replace_calls, <<RESOURCE_ID, data>>)
    /\ table' \in {table, data}
    /\ pc' = "Failed"
    /\ stages' = Append(stages, "Publish")
    /\ UNCHANGED <<answers, catalog_public, catalog_full, odp_data, edp_data, data, tasks,
                   inflight, results, failed, extracted, flattened, completed>>

Next ==
    \/ ExtractFetch
    \/ ExtractFail
    \/ ClassifyFilter
    \/ Transform
    \/ TransformFail
    \/ EnrichStart
    \/ \E k \in inflight : FetchReturn(k)
    \/ \E k \in inflight : FetchRaise(k)
    \/ GatherReturn
    \/ GatherRaise
    \/ Load
    \/ LoadFail

Spec == Init /\ [][Next]_vars

(***************************************************************************)
(* The same run on a catalog that varies what the filter reads: the owner, *)
(* the category (missing, the wanted one, another one) and a draft         *)
(* identifier.                                                             *)
(***************************************************************************)
FilterAssets ==
    { Asset(id, <<"dataset">>, owner_id,
            Classification(category, "absent", "absent", << >>), PlainStamps) :
        id \in {ID_A, ID_B, ID_DRAFT},
        owner_id \in {ATD_USER_ID, OTHER_USER_ID},
        category \in {"absent", TRANSPORTATION_AND_MOBILITY, <<"Public Safety">>} }
    \cup
    { Asset(ID_A, <<"dataset">>, ATD_USER_ID,
            Classification("absent", "absent", "absent", "absent"), PlainStamps) }

InitFilter ==
    /\ catalog_public \in PublicViews
    /\ catalog_full \in Catalogs(FilterAssets, MaxAssets)
    /\ InitRun

SpecFilter == InitFilter /\ [][Next]_vars

(***************************************************************************)
(* The same run on a catalog whose first asset varies what transform()     *)
(* reads: the tags, the two metadata lists and the timestamps.             *)
(***************************************************************************)
Item(key, value) == [key |-> key, value |-> value]

TagChoices == {"absent", << >>, << <<"traffic">> >>, << <<"traffic">>, <<"signals">> >>}

PrivateChoices ==
    { "absent", << >>,
      << Item(DEPARTMENT_NAME, <<"private">>) >>,
      << Item(DEPARTMENT_NAME, <<"private">>), Item(UPDATE_FREQUENCY, <<"Daily">>) >> }

PublicChoices ==
    { "absent", << >>,
      << Item(DEPARTMENT_NAME, <<"DTS">>) >>,
      << Item(DEPARTMENT_NAME, <<"private">>), Item("Unlisted-Key", <<"x">>) >>,
      << Item(UPDATE_FREQUENCY, <<"Weekly">>), Item(UPDATE_FREQUENCY, <<"Monthly">>) >> }

StampChoices ==
    { PlainStamps,
      <<None, << >>, None, TS_CDT, TS_CST>>,
      << << >>, TS_EVE, TS_CDT, TS_CST, None>>,
      <<TS_CST, TS_CST, TS_CST, TS_CST, TS_CST>>,
      <<TS_CST, TS_NO_FRACTION, TS_CST, TS_CST, TS_CST>> }

FlattenAssets ==
    { Asset(ID_A, type, ATD_USER_ID,
            Classification("absent", tags, private, public), stamps) :
        type \in {<<"dataset">>, <<"map">>}, tags \in TagChoices,
        private \in PrivateChoices, public \in PublicChoices,
        stamps \in StampChoices }

InitFlatten ==
    /\ catalog_public \in {v \in PublicViews : ~In([resource |-> [id |-> ID_B]], v)}
    /\ catalog_full \in
          { <<first>> \o others :
              first \in FlattenAssets,
              others \in Catalogs({a \in PlainAssets : /\ a.resource.id \in {ID_B, ID_C}
                                                       /\ a.resource.type = <<"map">>
                                                       /\ a.owner.id = ATD_USER_ID},
                                  MaxAssets - 1) }
    /\ InitRun

SpecFlatten == InitFlatten /\ [][Next]_vars

(***************************************************************************)
(* Properties.                                                             *)
(***************************************************************************)
Started(stage) == In(stage, stages)

\* get_row_counts() has returned to main()
Enriched == pc = "load" \/ Started("Publish")

IsDataset(row) == row.type = <<"dataset">>

PublicIdSet == {catalog_public[j].resource.id : j \in DOMAIN catalog_public}
FullIdSet == {catalog_full[i].resource.id : i \in DOMAIN catalog_full}

\* C1: once extract() has run its loop, every asset of the full view carries
\* is_public, which is True exactly when its resource.id is an identifier of
\* the public view, and every record extract() returns is an asset of the
\* full view, so an identifier of the public view alone gives no record.
C1_ClassificationTotal ==
    Started("Classify+Filter") =>
        /\ Len(edp_data) = Len(catalog_full)
        /\ \A i \in DOMAIN edp_data :
              /\ "is_public" \in DOMAIN edp_data[i]
              /\ edp_data[i].resource = catalog_full[i].resource
              /\ edp_data[i].is_public = TRUE
                    <=> catalog_full[i].resource.id \in PublicIdSet
        /\ \A j \in DOMAIN extracted :
              /\ extracted[j].resource.id \in FullIdSet
              /\ extracted[j].is_public = TRUE
                    <=> extracted[j].resource.id \in PublicIdSet

\* C1 witness: the loop has classified a public and a private asset while the
\* public view also held an identifier the full view lacks.
C1_Witness ==
    /\ pc = "transform"
    /\ ID_PUBLIC_ONLY \in PublicIdSet \ FullIdSet
    /\ \E i, j \in DOMAIN edp_data : edp_data[i].is_public /\ ~edp_data[j].is_public
    /\ extracted # << >>

\* the retention predicate, read off the asset as the API served it
Wanted(asset) ==
    /\ \/ asset.owner.id = ATD_USER_ID
       \/ /\ "domain_category" \in DOMAIN asset.classification
          /\ asset.classification.domain_category = TRANSPORTATION_AND_MOBILITY
    /\ \A n \in DOMAIN asset.resource.id : asset.resource.id[n] # ":"

Kept == {i \in DOMAIN catalog_full : Wanted(catalog_full[i])}

\* C2: what extract() returns is the subsequence of the full view, in input
\* order, of the assets with (owner.id = ATD_USER_ID or category =
\* "Transportation and Mobility") and no ':' in resource.id; an asset without
\* domain_category is kept or dropped as if its category were "".
C2_FilterExact ==
    Started("Classify+Filter") =>
        /\ Len(extracted) = Cardinality(Kept)
        /\ \A i \in Kept :
              LET at == Cardinality({k \in Kept : k <= i})
              IN  /\ extracted[at].resource = catalog_full[i].resource
                  /\ extracted[at].owner = catalog_full[i].owner
                  /\ "domain_category" \notin DOMAIN catalog_full[i].classification
                        => extracted[at].classification.domain_category = << >>

\* C2 witness: an asset dropped for its owner and category (it has no
\* domain_category) came before one kept for its category alone.
C2_Witness ==
    /\ pc = "transform"
    /\ Len(extracted) = 1
    /\ \E i, j \in DOMAIN catalog_full :
          /\ i < j
          /\ "domain_category" \notin DOMAIN catalog_full[i].classification
          /\ catalog_full[i].owner.id # ATD_USER_ID
          /\ ~In(":", catalog_full[i].resource.id)
          /\ catalog_full[j].owner.id # ATD_USER_ID
          /\ j \in Kept

HasKey(items, key) == \E n \in DOMAIN items : items[n].key = key

\* the value of the last item of the list with that key
ValueOf(items, key) ==
    items[CHOOSE n \in DOMAIN items :
              /\ items[n].key = key
              /\ \A m \in DOMAIN items : items[m].key = key => m <= n].value

PrivateItems(asset) ==
    IF "domain_private_metadata" \in DOMAIN asset.classification
    THEN asset.classification.domain_private_metadata
    ELSE << >>

\* C3: for each of the seven publishing-metadata keys, the output field of a
\* flattened record holds the domain_metadata value when domain_metadata has
\* the key (whatever domain_private_metadata says), and the
\* domain_private_metadata value when only that list has it.
C3_MetadataPrecedence ==
    \A i \in DOMAIN flattened : \A f \in DOMAIN fields :
        LET public == extracted[i].classification.domain_metadata
            private == PrivateItems(extracted[i])
        IN  /\ fields[f] \in DOMAIN flattened[i]
            /\ HasKey(public, f) => flattened[i][fields[f]] = ValueOf(public, f)
            /\ HasKey(private, f) /\ ~HasKey(public, f)
                  => flattened[i][fields[f]] = ValueOf(private, f)

\* C3 witness: a flattened record whose department name is in both lists with
\* different values, and whose update frequency is in the private list alone.
C3_Witness ==
    \E i \in DOMAIN flattened :
        LET public == extracted[i].classification.domain_metadata
            private == PrivateItems(extracted[i])
        IN  /\ HasKey(public, DEPARTMENT_NAME)
            /\ HasKey(private, DEPARTMENT_NAME)
            /\ ValueOf(public, DEPARTMENT_NAME) # ValueOf(private, DEPARTMENT_NAME)
            /\ HasKey(private, UPDATE_FREQUENCY)
            /\ ~HasKey(public, UPDATE_FREQUENCY)
            /\ flattened[i].update_frequency = <<"Daily">>

\* the keys of a record transform() returns
SCHEMA ==
    Range(OUT_FIELDS) \cup {"dataset_url", "is_public", "owner_display_name", "tags"}
    \cup {fields[f] : f \in DOMAIN fields}

\* what C4 says of the tags and of the publishing-metadata fields
AbsentIsEmpty(i) ==
    /\ "domain_tags" \notin DOMAIN extracted[i].classification
          => flattened[i].tags = << >>
    /\ \A f \in DOMAIN fields :
          /\ ~HasKey(extracted[i].classification.domain_metadata, f)
          /\ ~HasKey(PrivateItems(extracted[i]), f)
          => flattened[i][fields[f]] = << >>

\* C4 as stated: every record transform() returns has every key of the
\* schema, and the value is the empty string where the source has no tags,
\* where neither metadata list has the key and where a timestamp is empty or
\* null.
C4_AbsentIsEmptyString ==
    \A i \in DOMAIN flattened :
        /\ SCHEMA \subseteq DOMAIN flattened[i]
        /\ AbsentIsEmpty(i)
        /\ \A key \in TIMESTAMP_FIELDS :
              Falsy(extracted[i].resource[key]) => flattened[i][key] = << >>

\* C4 as amended: every record transform() returns has every key of the
\* schema; the value is the empty string where the source has no tags and
\* where neither metadata list has the key, and it is None where a timestamp
\* is empty or null.
C4_UniformSchema ==
    \A i \in DOMAIN flattened :
        /\ SCHEMA \subseteq DOMAIN flattened[i]
        /\ AbsentIsEmpty(i)
        /\ \A key \in TIMESTAMP_FIELDS :
              Falsy(extracted[i].resource[key]) => flattened[i][key] = None

\* C4 witness: a flattened record of an asset without tags, without any
\* metadata, with an empty and with a null timestamp.
C4_Witness ==
    \E i \in DOMAIN flattened :
        /\ "domain_tags" \notin DOMAIN extracted[i].classification
        /\ extracted[i].classification.domain_metadata = << >>
        /\ PrivateItems(extracted[i]) = << >>
        /\ \E k1, k2 \in TIMESTAMP_FIELDS :
              /\ extracted[i].resource[k1] = None
              /\ extracted[i].resource[k2] = << >>
        /\ flattened[i].tags = << >>

\* C5: once get_row_counts() has returned, every record of type "dataset"
\* has a row_count, the count the endpoint answered for the record's own
\* id, and no record of another type has a row_count.
C5_RowCountPerDataset ==
    Enriched =>
        \A i \in DOMAIN data :
            IF IsDataset(data[i])
            THEN /\ "row_count" \in DOMAIN data[i]
                 /\ data[i].id \in DOMAIN answers
                 /\ data[i].row_count = answers[data[i].id]
            ELSE "row_count" \notin DOMAIN data[i]

\* C5 witness: get_row_counts() returned records of both kinds, the dataset
\* holding a count above zero.
C5_Witness ==
    /\ pc = "load"
    /\ \E i, j \in DOMAIN data :
          /\ IsDataset(data[i])
          /\ data[i].row_count > 0
          /\ ~IsDataset(data[j])

\* C6: when the count query of one dataset fails, the run still calls the
\* sink's replace, and the records whose query was answered have their count.
C6_FailureIsolated ==
    pc \in {"Published", "Failed"} /\ failed # {} =>
        /\ replace_calls # << >>
        /\ \A i \in DOMAIN data :
              data[i].id \in DOMAIN answers
                 => /\ "row_count" \in DOMAIN data[i]
                    /\ data[i].row_count = answers[data[i].id]

\* the enriched record sequence of a run that got through every stage: one
\* record per asset extract() returned, flattened, the datasets with the
\* count the endpoint answered
CompleteRecords ==
    [i \in DOMAIN extracted |->
        IF IsDataset(flattened[i])
        THEN Put(flattened[i], "row_count", answers[flattened[i].id])
        ELSE flattened[i]]

CompleteRun ==
    /\ Len(flattened) = Len(extracted)
    /\ \A i \in DOMAIN flattened : IsDataset(flattened[i]) => flattened[i].id \in DOMAIN answers
    /\ replace_calls = << <<RESOURCE_ID, CompleteRecords>> >>

\* C7 as stated: a run that has ended is Published, replace having been
\* called once with the complete enriched records, or Failed, replace never
\* having been called and the table unchanged; replace is never called with
\* anything but the complete enriched records.
C7_TwoOutcomes ==
    /\ replace_calls # << >> => CompleteRun
    /\ pc = "Published" => CompleteRun /\ table = CompleteRecords
    /\ pc = "Failed" => replace_calls = << >> /\ table = PRIOR_ROWS

\* C7 as amended: a run that has ended is Published, replace having been
\* called once with the complete enriched records, which the table then
\* holds; or Failed because extract, transform or get_row_counts raised,
\* replace never having been called and the table unchanged; or Failed
\* because replace itself raised, having been called once with the complete
\* enriched records, the table holding its earlier rows or the complete
\* records.  Replace is never called with anything but the complete records.
C7_AllOrNothing ==
    /\ replace_calls # << >> => CompleteRun
    /\ pc = "Published" => CompleteRun /\ table = CompleteRecords
    /\ pc = "Failed" =>
          IF Started("Publish")
          THEN CompleteRun /\ table \in {PRIOR_ROWS, CompleteRecords}
          ELSE replace_calls = << >> /\ table = PRIOR_ROWS

\* C7 witness: a run Published two records, one dataset with its count and
\* one record of another type.
C7_Witness ==
    /\ pc = "Published"
    /\ Len(table) = 2
    /\ \E i, j \in DOMAIN table :
          /\ "row_count" \in DOMAIN table[i]
          /\ "row_count" \notin DOMAIN table[j]

IsPrefix(s, t) == Len(s) <= Len(t) /\ \A n \in DOMAIN s : s[n] = t[n]

\* C8: the stages start in the order Extract, Classify+Filter, Flatten,
\* Enrich, Publish, each on the complete output of the one before; requests
\* are outstanding during Enrich alone, and none is when replace is called.
C8_StagesInOrder ==
    /\ IsPrefix(stages, STAGES)
    /\ inflight # {} => pc = "gather" /\ stages[Len(stages)] = "Enrich"
    /\ pc = "load" \/ replace_calls # << >> =>
          /\ inflight = {}
          /\ DOMAIN results = DOMAIN tasks
    /\ Started("Flatten") => Len(extracted) = Cardinality(Kept)
    /\ Started("Enrich") => Len(flattened) = Len(extracted)

\* C8 witness: two requests were outstanding together in a run that then
\* went through Publish.
C8_Witness ==
    /\ stages = STAGES
    /\ Len(tasks) = 2
    /\ inflight = {}
    /\ pc = "Published"

\* C9: whatever the order in which the count requests complete, the records
\* get_row_counts() returns are its input records, each record whose id a
\* request was issued for holding the count answered for that id.
C9_MergedById ==
    Enriched =>
        data = [i \in DOMAIN flattened |->
                   IF In(flattened[i].id, tasks)
                   THEN Put(flattened[i], "row_count", answers[flattened[i].id])
                   ELSE flattened[i]]

\* C9 witness: the second request completed before the first, with another
\* count, and get_row_counts() returned.
C9_Witness ==
    /\ pc = "load"
    /\ completed = <<2, 1>>
    /\ answers[tasks[1]] # answers[tasks[2]]
    /\ \E i, j \in DOMAIN data : data[i].row_count # data[j].row_count

\* C10: get_row_counts() returns as many records as it was given, in the same
\* order; every key but row_count keeps its value and no other key appears.
C10_OnlyRowCountChanges ==
    Enriched =>
        /\ Len(data) = Len(flattened)
        /\ \A i \in DOMAIN flattened :
              /\ DOMAIN flattened[i] \subseteq DOMAIN data[i]
              /\ DOMAIN data[i] \subseteq DOMAIN flattened[i] \cup {"row_count"}
              /\ \A key \in DOMAIN flattened[i] \ {"row_count"} :
                    data[i][key] = flattened[i][key]

\* C10 witness: get_row_counts() returned two records, having written a
\* row_count into one of them.
C10_Witness ==
    /\ pc = "load"
    /\ Len(data) = 2
    /\ \E i \in DOMAIN data : "row_count" \in DOMAIN data[i]
    /\ \E i \in DOMAIN data : "row_count" \notin DOMAIN data[i]

====
